---------------------------- MODULE Spec2Model ----------------------------
(***************************************************************************)
(* tycheplusplus::FixedPoint<B,I,F> (src/src/utilities/fixed_point.hpp).   *)
(*                                                                         *)
(* The class holds one integer value_ of storage kind B.  It is created by *)
(* the converting constructors FixedPoint(float) / FixedPoint(double) or   *)
(* by the implicit copy operations, and mutated by operator+= and          *)
(* operator-=.  The binary + and - come from the boost::operators bases.   *)
(*                                                                         *)
(* Real arguments are exact rationals num / VDen (dyadic, so that float    *)
(* and double arithmetic on them is exact), or NaN.                        *)
(***************************************************************************)
EXTENDS Integers, FiniteSets, Sequences, TLC

(* ------------------------------ bounds -------------------------------- *)

\* Storage kinds of 2 .. MaxBits bits stand for the fixed-width integer kinds.
MaxBits == 3

\* Constructor arguments have FracBits binary fraction digits ...
FracBits == 2

\* ... and numerators -MaxNum .. MaxNum (plus the documented scenario values).
MaxNum == 2

(* ----------------------- template parameters -------------------------- *)

Pow2(n) == 2 ^ n

VDen == Pow2(FracBits)

\* typename B: a signed or unsigned integer kind of `bits` bits.
StorageKinds == [signed : BOOLEAN, bits : 2 .. MaxBits]

\* std::numeric_limits<B>::digits: the number of non-sign bits of B.
Digits(B) == IF B.signed THEN B.bits - 1 ELSE B.bits

\* F = sizeof(B) * 8 - I: the sign bit counted as a value bit.
DefaultFWholeWidth(B, i) == B.bits - i

\* unsigned char F = std::numeric_limits<B>::digits - I
DefaultF(B, i) == Digits(B) - i

\* The values a B can hold.
BMin(B) == IF B.signed THEN -Pow2(B.bits - 1) ELSE 0

BMax(B) == IF B.signed THEN Pow2(B.bits - 1) - 1 ELSE Pow2(B.bits) - 1

BRange(B) == BMin(B) .. BMax(B)

\* FixedPoint<B,I>: F left at its default.
DefaultedInstantiations ==
  { [B |-> b, I |-> i, F |-> DefaultF(b, i), defaulted |-> TRUE] :
      <<b, i>> \in { <<b, i>> \in StorageKinds \X (0 .. MaxBits) : i <= Digits(b) } }

\* FixedPoint<int16_t, 8, 8>, the instantiation of the documented scenarios,
\* with F given explicitly.
Q8_8 == [B |-> [signed |-> TRUE, bits |-> 16], I |-> 8, F |-> 8, defaulted |-> FALSE]

Instantiations == DefaultedInstantiations \cup {Q8_8}

(* -------------------------- real arguments ---------------------------- *)

NaN == [kind |-> "nan", num |-> 0]

NoSrc == [kind |-> "none", num |-> 0]

Real(n) == [kind |-> "real", num |-> n]

\* 3.75 in units of 1 / VDen.
ScenarioNums == { (15 * VDen) \div 4 }

Nums == (-MaxNum .. MaxNum) \cup ScenarioNums \cup { -n : n \in ScenarioNums }

Inputs == { Real(n) : n \in Nums } \cup {NaN}

(* ------------------------------ state --------------------------------- *)

Objs == {"a", "b"}

VARIABLES
  tparams,   \* the instantiation <B, I, F> the objects belong to
  value_,    \* value_[o]: the private member B value_ of object o
  src,       \* src[o]: the constructor argument value_[o] was converted from
  old,       \* value_ as it was before the last operation
  last,      \* the last operation: [op, lhs, rhs]
  ret,       \* what the last operation returned
  prev       \* the temporary returned by the binary operator evaluated before

vars == <<tparams, value_, src, old, last, ret, prev>>

B == tparams.B

F == tparams.F

\* static constexpr unsigned long long two_power_f = (1ULL << F);
two_power_f == Pow2(F)

(* ----------------------------- rationals ------------------------------ *)

\* A rational is <<n, d>> with d > 0.
RatGE0(q) == q[1] >= 0

\* Conversion of a floating-point value to an integer: truncation toward zero.
Trunc(q) == IF q[1] >= 0 THEN q[1] \div q[2] ELSE -((-q[1]) \div q[2])

\* The truncated value converted to B.  A value B cannot hold is undefined
\* behaviour: any value of B may be stored.
ToStorage(z) == IF z \in BRange(B) THEN {z} ELSE BRange(B)

(* ---------------------------- constructors ---------------------------- *)

\* The documented rounding: trunc(v * 2^F + (v >= 0 ? 0.5 : -0.5)).
RoundHalfAway(v) ==
  Trunc(<<2 * v.num * two_power_f + (IF v.num >= 0 THEN VDen ELSE -VDen), 2 * VDen>>)

\* value_((value * two_power_f + value >= 0) ? 0.5 : -0.5) with the
\* conditional around the sum, as it was meant.
CtorIntended(v) ==
  IF v.kind = "nan" THEN BRange(B) ELSE ToStorage(RoundHalfAway(v))

\* value_(value * two_power_f + 0.5): the sign of the half forgotten.
CtorNoSign(v) ==
  IF v.kind = "nan" THEN BRange(B)
  ELSE ToStorage(Trunc(<<2 * v.num * two_power_f + VDen, 2 * VDen>>))

\* value_(value * two_power_f + value >= 0 ? 0.5 : -0.5)
\* `>=` binds tighter than `?:` and `+` tighter than `>=`: the condition is
\* (value * two_power_f + value) >= 0, false for NaN, and the initialiser is
\* the selected 0.5 or -0.5, converted to B.
Ctor(v) ==
  LET sum   == <<v.num * two_power_f + v.num, VDen>>
      cond  == v.kind # "nan" /\ RatGE0(sum)
      half  == IF cond THEN <<1, 2>> ELSE <<-1, 2>>
  IN  ToStorage(Trunc(half))

NoRet == [kind |-> "none", obj |-> "", val |-> 0, op1 |-> "", x |-> "", y |-> "",
          op2 |-> "", z |-> ""]

NoPrev == [op |-> "", x |-> "", y |-> "", val |-> 0, set |-> FALSE]

Op(op, o, p) == [op |-> op, lhs |-> o, rhs |-> p]

\* Two objects, each constructed from a real argument.
Init ==
  /\ tparams \in Instantiations
  /\ \E va \in Inputs, vb \in Inputs :
       /\ src = [o \in Objs |-> IF o = "a" THEN va ELSE vb]
       /\ \E ra \in Ctor(va), rb \in Ctor(vb) :
            value_ = [o \in Objs |-> IF o = "a" THEN ra ELSE rb]
  /\ old = value_
  /\ last = Op("init", "", "")
  /\ ret = NoRet
  /\ prev = NoPrev

\* FixedPoint(float value): object o is constructed anew from v.
ConstructFloat(o, v) ==
  /\ \E r \in Ctor(v) : value_' = [value_ EXCEPT ![o] = r]
  /\ src' = [src EXCEPT ![o] = v]
  /\ old' = value_
  /\ last' = Op("float", o, "")
  /\ ret' = NoRet
  /\ prev' = NoPrev
  /\ UNCHANGED tparams

\* FixedPoint(double value)
ConstructDouble(o, v) ==
  /\ \E r \in Ctor(v) : value_' = [value_ EXCEPT ![o] = r]
  /\ src' = [src EXCEPT ![o] = v]
  /\ old' = value_
  /\ last' = Op("double", o, "")
  /\ ret' = NoRet
  /\ prev' = NoPrev
  /\ UNCHANGED tparams

(* ------------------------- member operators -------------------------- *)

\* The operators the class body defines.
ClassOperators == {"+=", "-="}

\* value_ += rhs.value_ clamped to the range of B.
AddSaturating(x, y) ==
  {IF x + y > BMax(B) THEN BMax(B) ELSE IF x + y < BMin(B) THEN BMin(B) ELSE x + y}

\* value_ += rhs.value_ in B.  Unsigned arithmetic is modulo 2^bits; a signed
\* result B cannot hold is undefined (or implementation-defined for the
\* kinds narrower than int): any value of B may result.
AddResults(x, y) ==
  IF B.signed THEN (IF x + y \in BRange(B) THEN {x + y} ELSE BRange(B))
  ELSE {(x + y) % Pow2(B.bits)}

\* operator-= with the body of operator+= pasted in: value_ += rhs.value_.
SubAsAdd(x, y) == AddResults(x, y)

\* operator-= with the operands exchanged: value_ = rhs.value_ - value_.
SubReversed(x, y) ==
  IF B.signed THEN (IF y - x \in BRange(B) THEN {y - x} ELSE BRange(B))
  ELSE {(y - x) % Pow2(B.bits)}

\* value_ -= rhs.value_ in B.
SubResults(x, y) ==
  IF B.signed THEN (IF x - y \in BRange(B) THEN {x - y} ELSE BRange(B))
  ELSE {(x - y) % Pow2(B.bits)}

RefTo(o, r) == [NoRet EXCEPT !.kind = "ref", !.obj = o, !.val = r]

\* The implicit copy assignment o = p.
CopyAssign(o, p) ==
  /\ value_' = [value_ EXCEPT ![o] = value_[p]]
  /\ src' = [src EXCEPT ![o] = src[p]]
  /\ old' = value_
  /\ last' = Op("=", o, p)
  /\ ret' = RefTo(o, value_[p])
  /\ prev' = NoPrev
  /\ UNCHANGED tparams

\* fixed& operator +=(fixed const& rhs) { value_ += rhs.value_; return *this; }
PlusAssign(o, p) ==
  /\ \E r \in AddResults(value_[o], value_[p]) :
       /\ value_' = [value_ EXCEPT ![o] = r]
       /\ ret' = RefTo(o, r)
  /\ src' = [src EXCEPT ![o] = NoSrc]
  /\ old' = value_
  /\ last' = Op("+=", o, p)
  /\ prev' = NoPrev
  /\ UNCHANGED tparams

\* fixed& operator -=(fixed const& rhs) { value_ -= rhs.value_; return *this; }
MinusAssign(o, p) ==
  /\ \E r \in SubResults(value_[o], value_[p]) :
       /\ value_' = [value_ EXCEPT ![o] = r]
       /\ ret' = RefTo(o, r)
  /\ src' = [src EXCEPT ![o] = NoSrc]
  /\ old' = value_
  /\ last' = Op("-=", o, p)
  /\ prev' = NoPrev
  /\ UNCHANGED tparams

(* ----------------- operators of the boost::operators bases ------------ *)

CompareOps == {"<", "==", ">", "<=", ">=", "!="}

\* The member operator each comparison is made of: boost::ordered_field_operators
\* derives > <= >= from the class's < and != from the class's ==.
Primitive(op) == IF op \in {"==", "!="} THEN "==" ELSE "<"

IllFormed == [NoRet EXCEPT !.kind = "ill-formed"]

\* o op p for a comparison: the class body defines neither operator< nor
\* operator==, so the expression has no value (it does not compile).
Compare(op, o, p) ==
  /\ Primitive(op) \notin ClassOperators
  /\ ret' = IllFormed
  /\ old' = value_
  /\ last' = Op(op, o, p)
  /\ prev' = NoPrev
  /\ UNCHANGED <<tparams, value_, src>>

Temp(op, o, p, r) ==
  [NoRet EXCEPT !.kind = "temp", !.val = r, !.op1 = op, !.x = o, !.y = p]

\* The sum p + o evaluated just before o + p, kept to compare the two.
PrevOf(t, o, p) ==
  IF t.kind = "temp" /\ t.op1 = "+" /\ t.op2 = "" /\ t.x = p /\ t.y = o
  THEN [op |-> t.op1, x |-> t.x, y |-> t.y, val |-> t.val, set |-> TRUE]
  ELSE NoPrev

\* operator+(T lhs, const T& rhs) takes its left operand by reference and
\* returns lhs += rhs: the operand itself is written.
AfterBinaryNoCopy(o, r) == [value_ EXCEPT ![o] = r]

\* The boost bases take the left operand by value: the compound operator
\* writes the copy, the operands keep their values.
AfterBinary(o, r) == value_

\* o + p, from boost::ordered_field_operators: copy(o) += p.
Plus(o, p) ==
  /\ "+=" \in ClassOperators
  /\ \E r \in AddResults(value_[o], value_[p]) :
       /\ ret' = Temp("+", o, p, r)
       /\ value_' = AfterBinary(o, r)
  /\ old' = value_
  /\ last' = Op("+", o, p)
  /\ prev' = PrevOf(ret, o, p)
  /\ UNCHANGED <<tparams, src>>

\* o - p: copy(o) -= p.
Minus(o, p) ==
  /\ "-=" \in ClassOperators
  /\ \E r \in SubResults(value_[o], value_[p]) :
       /\ ret' = Temp("-", o, p, r)
       /\ value_' = AfterBinary(o, r)
  /\ old' = value_
  /\ last' = Op("-", o, p)
  /\ prev' = NoPrev
  /\ UNCHANGED <<tparams, src>>

\* (x op1 y) - p: the binary operator applied to the temporary just returned.
ThenMinus(p) ==
  /\ "-=" \in ClassOperators
  /\ ret.kind = "temp" /\ ret.op2 = ""
  /\ \E r \in SubResults(ret.val, value_[p]) :
       ret' = [ret EXCEPT !.val = r, !.op2 = "-", !.z = p]
  /\ old' = value_
  /\ last' = Op("(..)-", "", p)
  /\ prev' = NoPrev
  /\ UNCHANGED <<tparams, value_, src>>

(* --------------------------- specifications --------------------------- *)

\* The program: objects are constructed, copied, added to and compared.
Next ==
  \/ \E o \in Objs, v \in Inputs : ConstructFloat(o, v)
  \/ \E o \in Objs, v \in Inputs : ConstructDouble(o, v)
  \/ \E o \in Objs, p \in Objs : CopyAssign(o, p)
  \/ \E o \in Objs, p \in Objs : PlusAssign(o, p)
  \/ \E o \in Objs, p \in Objs : MinusAssign(o, p)
  \/ \E op \in CompareOps, o \in Objs, p \in Objs : Compare(op, o, p)

Spec == Init /\ [][Next]_vars

\* The operators as functions of their operands: the operands hold any two
\* values of B.
OpsInstantiations == { t \in DefaultedInstantiations : t.I = 0 }

InitOps ==
  /\ tparams \in OpsInstantiations
  /\ value_ \in [Objs -> BRange(B)]
  /\ src = [o \in Objs |-> NoSrc]
  /\ old = value_
  /\ last = Op("init", "", "")
  /\ ret = NoRet
  /\ prev = NoPrev

NextOps ==
  \/ \E o \in Objs, p \in Objs : PlusAssign(o, p)
  \/ \E o \in Objs, p \in Objs : MinusAssign(o, p)
  \/ \E o \in Objs, p \in Objs : Plus(o, p)
  \/ \E o \in Objs, p \in Objs : Minus(o, p)
  \/ \E p \in Objs : ThenMinus(p)

SpecOps == InitOps /\ [][NextOps]_vars

(* ------------------------------ claims -------------------------------- *)

\* v is in the representable range: its rounded scaled value is a value of B.
Representable(v) == RoundHalfAway(v) \in BRange(B)

Scenario375 == Real((15 * VDen) \div 4)

\* C1: an object constructed from a representable real v holds
\* trunc(v * 2^F + (v >= 0 ? 0.5 : -0.5)); FixedPoint<int16_t,8,8>(3.75) holds
\* 960 and FixedPoint<int16_t,8,8>(-3.75) holds -960.
C1_Claim ==
  \A o \in Objs :
    /\ (src[o].kind = "real" /\ Representable(src[o]))
          => value_[o] = RoundHalfAway(src[o])
    /\ (tparams = Q8_8 /\ src[o] = Scenario375) => value_[o] = 960
    /\ (tparams = Q8_8 /\ src[o] = Real(-Scenario375.num)) => value_[o] = -960

\* C5: for signed B, objects constructed from v and from -v (both
\* representable) hold values that are integer negations of each other.
C5_RoundingSymmetry ==
  B.signed =>
    \A o \in Objs, p \in Objs :
      ( /\ src[o].kind = "real" /\ src[p].kind = "real"
        /\ src[p].num = -src[o].num
        /\ Representable(src[o]) /\ Representable(src[p]) )
      => value_[o] = -value_[p]

\* C5 witness: a was just constructed from a nonzero v and b holds the
\* conversion of -v, in a signed instantiation that can represent both.
C5_Witness ==
  /\ B.signed
  /\ last.op \in {"float", "double"} /\ last.lhs = "a"
  /\ src["a"].kind = "real" /\ src["a"].num < 0
  /\ src["b"] = Real(-src["a"].num)
  /\ Representable(src["a"]) /\ Representable(src["b"])

\* C6 as stated: with F defaulted, I + F is the full bit width of B, for
\* signed and unsigned B alike.
C6_Claim == tparams.defaulted => tparams.I + tparams.F = B.bits

\* C6 amended: with F defaulted, I + F is the bit width of B for unsigned B
\* and the bit width less the sign bit for signed B.
C6_DefaultFIsDigits ==
  tparams.defaulted =>
    tparams.I + tparams.F = (IF B.signed THEN B.bits - 1 ELSE B.bits)

\* C6 witness: an object of a signed instantiation with defaulted F and both
\* integer and fractional bits has been constructed.
C6_Witness ==
  /\ tparams.defaulted /\ B.signed /\ tparams.I > 0 /\ tparams.F > 0
  /\ last.op = "double"

\* What a comparison of stored values x and y is to yield.
Expected(op, x, y) ==
  CASE op = "<"  -> x < y
    [] op = "==" -> x = y
    [] op = ">"  -> y < x
    [] op = "<=" -> ~(y < x)
    [] op = ">=" -> ~(x < y)
    [] op = "!=" -> ~(x = y)

\* C7: every comparison a op b has a truth value, the one the total order of
\* the stored values gives (exactly one of a < b, a == b, b < a; the derived
\* comparisons composed from < and ==).
C7_Claim ==
  last.op \in CompareOps =>
    /\ ret.kind = "bool"
    /\ ret.val = (IF Expected(last.op, value_[last.lhs], value_[last.rhs]) THEN 1 ELSE 0)

\* C10: whatever was constructed, copied, added or subtracted, every object
\* holds 0, and so does every value returned.
C10_AlwaysZero ==
  /\ \A o \in Objs : value_[o] = 0
  /\ ret.kind = "ref" => ret.val = 0

\* C10 witness: b was constructed from 3.75 with F = 8 and then added to a.
C10_Witness ==
  /\ tparams = Q8_8
  /\ src["b"] = Scenario375
  /\ last = Op("+=", "a", "b")

\* C2: a += b leaves a.value_ = old a.value_ + b.value_ and a -= b leaves
\* a.value_ = old a.value_ - b.value_ whenever B can hold the result, and
\* each returns a reference to a.
C2_CompoundExact ==
  /\ (last.op = "+=" /\ old[last.lhs] + old[last.rhs] \in BRange(B))
       => /\ value_[last.lhs] = old[last.lhs] + old[last.rhs]
          /\ ret = RefTo(last.lhs, value_[last.lhs])
  /\ (last.op = "-=" /\ old[last.lhs] - old[last.rhs] \in BRange(B))
       => /\ value_[last.lhs] = old[last.lhs] - old[last.rhs]
          /\ ret = RefTo(last.lhs, value_[last.lhs])

\* C2 witness: a -= b was applied to a = 1, b = 2 in a signed B.
C2_Witness ==
  /\ B.signed
  /\ last = Op("-=", "a", "b")
  /\ old["a"] = 1 /\ old["b"] = 2

\* C3: a += b and a -= b change no object but a; a + b and a - b change no
\* object at all and return a temporary.
C3_Frame ==
  /\ last.op \in {"+=", "-="}
       => \A q \in Objs \ {last.lhs} : value_[q] = old[q]
  /\ last.op \in {"+", "-"}
       => /\ value_ = old
          /\ ret.kind = "temp"

\* C3 witness: a + b was evaluated with b nonzero, so that the sum differs
\* from a.
C3_Witness ==
  /\ last = Op("+", "a", "b")
  /\ value_["b"] # 0
  /\ ret.val # value_["a"]

\* x + y is computed without signed overflow.
SumDefined(x, y) == (~B.signed) \/ (x + y \in BRange(B))

\* C4: (a + b) - b holds the value of a, and a + b holds the value of b + a
\* (for signed B: when a + b does not overflow).
C4_AdditiveLaws ==
  /\ ( /\ ret.kind = "temp" /\ ret.op1 = "+" /\ ret.op2 = "-" /\ ret.z = ret.y
       /\ SumDefined(value_[ret.x], value_[ret.y]) )
     => ret.val = value_[ret.x]
  /\ ( /\ ret.kind = "temp" /\ ret.op1 = "+" /\ ret.op2 = ""
       /\ prev.set /\ prev.x = ret.y /\ prev.y = ret.x
       /\ SumDefined(value_[ret.x], value_[ret.y]) )
     => ret.val = prev.val

\* C4 witness: (a + b) - b was evaluated in an unsigned B where a + b wraps.
C4_Witness ==
  /\ ~B.signed
  /\ ret.kind = "temp" /\ ret.op1 = "+" /\ ret.op2 = "-"
  /\ ret.x = "a" /\ ret.y = "b" /\ ret.z = "b"
  /\ value_["a"] + value_["b"] > BMax(B)

\* C9: for unsigned B, a += b stores (a + b) mod 2^N and a -= b stores
\* (a - b) mod 2^N, and both return normally.
C9_UnsignedWraps ==
  (~B.signed) =>
    /\ last.op = "+="
         => /\ value_[last.lhs] = (old[last.lhs] + old[last.rhs]) % Pow2(B.bits)
            /\ ret.kind = "ref"
    /\ last.op = "-="
         => /\ value_[last.lhs] = (old[last.lhs] - old[last.rhs]) % Pow2(B.bits)
            /\ ret.kind = "ref"

\* C9 witness: a += b overflowed an unsigned B.
C9_Witness ==
  /\ ~B.signed
  /\ last = Op("+=", "a", "b")
  /\ old["a"] + old["b"] > BMax(B)

=============================================================================
